---- MODULE Spec2Model ----
(***************************************************************************)
(* Model of the Brighty Discord relay: the per-user context store          *)
(* (api/context_manager.py), the completion client (api/openrouter.py),    *)
(* the message handler and the text splitter of the bot (bot/sora.py).     *)
(***************************************************************************)
EXTENDS Integers, Sequences, FiniteSets, TLC

(***************************************************************************)
(* Text.  A Python str is a sequence of characters.  Every character       *)
(* carries a mark ins that records whether smart_split_text wrote it as    *)
(* part of a fence marker it added at a chunk boundary; the mark is never  *)
(* read by the splitter itself (len, strip, count, find and slicing look   *)
(* at c only).                                                             *)
(***************************************************************************)
Src(s) == [i \in 1..Len(s) |-> [c |-> s[i], ins |-> FALSE]]

Ins(s) == [i \in 1..Len(s) |-> [c |-> s[i], ins |-> TRUE]]

Plain(s) == [i \in 1..Len(s) |-> s[i].c]

SetMin(S) == CHOOSE x \in S : \A y \in S : x <= y

SetMax(S) == CHOOSE x \in S : \A y \in S : y <= x

\* the whitespace of str.strip() within the alphabet of the model
IsSpace(ch) == ch.c \in {" ", "\n"}

\* str.strip()
strip(s) ==
    LET keep == {i \in 1..Len(s) : ~IsSpace(s[i])}
    IN  IF keep = {} THEN <<>> ELSE SubSeq(s, SetMin(keep), SetMax(keep))

\* pat occurs in s at (1-based) index i
OccursAt(s, i, pat) ==
    /\ i + Len(pat) - 1 <= Len(s)
    /\ \A j \in 1..Len(pat) : s[i + j - 1].c = pat[j]

\* str.startswith(pat)
startswith(s, pat) == OccursAt(s, 1, pat)

RECURSIVE SplitAt(_, _, _, _)
SplitAt(s, sep, start, i) ==
    IF i + Len(sep) - 1 > Len(s)
    THEN << SubSeq(s, start, Len(s)) >>
    ELSE IF OccursAt(s, i, sep)
         THEN << SubSeq(s, start, i - 1) >>
                  \o SplitAt(s, sep, i + Len(sep), i + Len(sep))
         ELSE SplitAt(s, sep, start, i + 1)

\* str.split(sep): left to right, the separators do not overlap
split(s, sep) == SplitAt(s, sep, 1, 1)

RECURSIVE CountFrom(_, _, _)
CountFrom(s, pat, i) ==
    IF i + Len(pat) - 1 > Len(s) THEN 0
    ELSE IF OccursAt(s, i, pat) THEN 1 + CountFrom(s, pat, i + Len(pat))
         ELSE CountFrom(s, pat, i + 1)

\* str.count(pat): occurrences that do not overlap
count(s, pat) == CountFrom(s, pat, 1)

\* str.find(pat) as a 0-based index; only used where pat occurs
find(s, pat) == SetMin({i \in 1..Len(s) : OccursAt(s, i, pat)}) - 1

\* s[i:] for a 0-based i
SliceFrom(s, i) == SubSeq(s, i + 1, Len(s))

\* s[i:i+n] for a 0-based i
Slice(s, i, n) == SubSeq(s, i + 1, IF i + n < Len(s) THEN i + n ELSE Len(s))

\* one backtick of the source is written "~" here
Tick == "~"

\* the fence marker: three backticks
Fence == <<Tick, Tick, Tick>>

\* a newline and a fence marker, written at the end of a chunk (lines 269, 304, 318, 336)
CloseFence == Ins(<<"\n">> \o Fence)

\* a fence marker, code_block_lang and a newline, written at the start of a chunk
\* (lines 280, 308, 322)
OpenFence(lang) == Ins(Fence \o Plain(lang) \o <<"\n">>)

(***************************************************************************)
(* smart_split_text.  The loop over the paragraphs is a fold over the      *)
(* record [chunks, current_chunk, code_block_open, code_block_lang].       *)
(***************************************************************************)

\* lines 266-281: the paragraph does not fit into the current chunk
FlushBeforeParagraph(st) ==
    LET closed == IF st.code_block_open
                   THEN st.current_chunk \o CloseFence
                   ELSE st.current_chunk
    IN  [chunks          |-> Append(st.chunks, strip(closed)),
         current_chunk   |-> IF st.code_block_lang # <<>>
                             THEN OpenFence(st.code_block_lang) ELSE <<>>,
         code_block_open |-> st.code_block_lang # <<>>,
         code_block_lang |-> st.code_block_lang]

\* lines 293-297: the language that follows the first marker of the paragraph
ExtractLang(paragraph, lang) ==
    LET marker_pos == find(paragraph, Fence)
        rest       == SliceFrom(paragraph, marker_pos + 3)
    IN  IF /\ marker_pos + 3 < Len(paragraph)
           /\ strip(rest) # <<>>
           /\ ~startswith(rest, <<"\n">>)
        THEN strip(split(rest, <<"\n">>)[1])
        ELSE lang

\* lines 284-297: an odd number of markers toggles code_block_open
CountMarkers(st, paragraph) ==
    LET markers == count(paragraph, Fence)
        toggled == markers > 0 /\ markers % 2 # 0
        open    == IF toggled THEN ~st.code_block_open ELSE st.code_block_open
    IN  [st EXCEPT !.code_block_open = open,
                   !.code_block_lang = IF toggled /\ open
                                       THEN ExtractLang(paragraph, @) ELSE @]

\* lines 302-309: flush the current chunk before a paragraph that is too long
FlushBeforeWords(st) ==
    IF st.current_chunk = <<>> THEN st
    ELSE LET closed == IF st.code_block_open
                        THEN st.current_chunk \o CloseFence
                        ELSE st.current_chunk
         IN  [chunks          |-> Append(st.chunks, strip(closed)),
              current_chunk   |-> IF st.code_block_lang # <<>>
                                  THEN OpenFence(st.code_block_lang) ELSE <<>>,
              code_block_open |-> st.code_block_open \/ st.code_block_lang # <<>>,
              code_block_lang |-> st.code_block_lang]

\* lines 316-323: one word of a paragraph that is too long
WordStep(acc, word, open, lang, max_len) ==
    LET over   == Len(acc.temp_chunk) + Len(word) + 1 > max_len
        closed == IF open THEN acc.temp_chunk \o CloseFence ELSE acc.temp_chunk
        temp   == IF over THEN (IF open THEN OpenFence(lang) ELSE <<>>)
                          ELSE acc.temp_chunk
    IN  [chunks     |-> IF over THEN Append(acc.chunks, strip(closed))
                                ELSE acc.chunks,
         temp_chunk |-> temp \o word \o Src(<<" ">>)]

RECURSIVE WordLoop(_, _, _, _, _, _)
WordLoop(acc, words, i, open, lang, max_len) ==
    IF i > Len(words) THEN acc
    ELSE WordLoop(WordStep(acc, words[i], open, lang, max_len),
                  words, i + 1, open, lang, max_len)

\* lines 300-330: the paragraph is split into words, or joins the current chunk
PlaceParagraph(st, paragraph, max_len) ==
    IF Len(paragraph) > max_len
    THEN LET f   == FlushBeforeWords(st)
             acc == WordLoop([chunks |-> f.chunks, temp_chunk |-> <<>>],
                             split(paragraph, <<" ">>), 1,
                             f.code_block_open, f.code_block_lang, max_len)
         IN  [f EXCEPT !.chunks = acc.chunks,
                       !.current_chunk = @ \o acc.temp_chunk]
    ELSE [st EXCEPT !.current_chunk = @ \o paragraph \o Src(<<"\n", "\n">>)]

\* lines 264-330: the body of the loop over the paragraphs
ParagraphStep(st, paragraph, max_len) ==
    LET s1 == IF Len(st.current_chunk) + Len(paragraph) + 2 > max_len
              THEN FlushBeforeParagraph(st) ELSE st
    IN  PlaceParagraph(CountMarkers(s1, paragraph), paragraph, max_len)

RECURSIVE ParagraphLoop(_, _, _, _)
ParagraphLoop(st, paragraphs, i, max_len) ==
    IF i > Len(paragraphs) THEN st
    ELSE ParagraphLoop(ParagraphStep(st, paragraphs[i], max_len),
                       paragraphs, i + 1, max_len)

\* lines 332-337: the last chunk
LastChunk(st) ==
    IF strip(st.current_chunk) = <<>> THEN st.chunks
    ELSE Append(st.chunks,
                strip(IF st.code_block_open
                      THEN st.current_chunk \o CloseFence
                      ELSE st.current_chunk))

RECURSIVE ForceSlices(_, _, _)
ForceSlices(chunk, i, max_len) ==
    IF i >= Len(chunk) THEN <<>>
    ELSE << Slice(chunk, i, max_len) >> \o ForceSlices(chunk, i + max_len, max_len)

RECURSIVE VerifyFrom(_, _, _)
VerifyFrom(chunks, i, max_len) ==
    IF i > Len(chunks) THEN <<>>
    ELSE (IF Len(chunks[i]) <= max_len
          THEN << chunks[i] >>
          ELSE ForceSlices(chunks[i], 0, max_len))
         \o VerifyFrom(chunks, i + 1, max_len)

\* the chunks as the paragraph loop left them, without the final pass
UnverifiedChunks(chunks, max_len) == chunks

\* lines 339-349: no chunk may exceed max_length
VerifyChunks(chunks, max_len) == VerifyFrom(chunks, 1, max_len)

\* lines 256-337: the chunks before the final pass
paragraph_chunks(txt, max_len) ==
    LastChunk(ParagraphLoop([chunks          |-> <<>>,
                             current_chunk   |-> <<>>,
                             code_block_open |-> FALSE,
                             code_block_lang |-> <<>>],
                            split(txt, <<"\n", "\n">>), 1, max_len))

\* smart_split_text without the early return of lines 253-254
split_without_shortcut(txt, max_len) ==
    VerifyChunks(paragraph_chunks(txt, max_len), max_len)

\* lines 242-349
smart_split_text(txt, max_len) ==
    IF Len(txt) <= max_len THEN << txt >>
    ELSE LET st == ParagraphLoop([chunks          |-> <<>>,
                                  current_chunk   |-> <<>>,
                                  code_block_open |-> FALSE,
                                  code_block_lang |-> <<>>],
                                 split(txt, <<"\n", "\n">>), 1, max_len)
         IN  VerifyChunks(LastChunk(st), max_len)

(***************************************************************************)
(* Inputs of the splitter: every text of at most MaxTokens tokens.         *)
(***************************************************************************)
MaxTokens == 6

MaxLength == 9

Tokens == { <<"a">>, <<" ">>, <<"\n">>, <<"\n", "\n">>, Fence }

RECURSIVE Flatten(_)
Flatten(ts) == IF ts = <<>> THEN <<>> ELSE Head(ts) \o Flatten(Tail(ts))

Texts == { Src(Flatten(ts)) : ts \in UNION { [1..n -> Tokens] : n \in 0..MaxTokens } }

(***************************************************************************)
(* Inputs of the message handler.                                          *)
(***************************************************************************)
\* the users (message.author.id, interaction.user.id)
Keys == {"u1", "u2"}

\* inbound messages handled in one behaviour; each gets its own task
MaxTasks == 2

Tasks == 1..MaxTasks

\* message.content of the inbound messages
Questions == { Src(<<"h", "i">>) }

\* the limit handed to smart_split_text at sora.py:213 (1900 there), scaled to
\* the replies of the model
ChunkLimit == 5

\* the limit of the check at sora.py:223 (2000 there), scaled alike
HardLimit == 6

\* model replies: one that fits a chunk, one that is split into three
Replies == { Src(<<"o", "k">>),
             Src(<<"a", "a", "\n", "\n", "b", "b", "\n", "\n", "c", "c">>) }

\* the model identifiers an administrator or a user may choose (not empty)
ModelIds == {"m1"}

\* a user without an entry in user_models
NoEntry == "<no entry>"

\* the literal of context_manager.py:67 and of sora.py:42
GeminiFlashLite == "google/gemini-2.0-flash-lite-preview-02-05:free"

(***************************************************************************)
(* State.  Python lists are objects: lists maps the identity of a list to  *)
(* its content, contexts maps a user to the identity of the list stored    *)
(* for it (None when the user has no entry), and the local variable        *)
(* messages of a task holds an identity as well.                            *)
(***************************************************************************)
None == 0

\* one list for each user and each task, and one being made
ObjIds == 1..(Cardinality(Keys) + MaxTasks + 1)

VARIABLES
    contexts,                     \* ContextManager.contexts
    lists,                        \* the list objects contexts and tasks refer to
    user_models,                  \* ContextManager.user_models
    default_model,                \* Sora.default_model
    task,                         \* the on_message tasks, their locals and place
    text, max_length, chunks, splitPc   \* one call of smart_split_text

storeVars == << contexts, lists, user_models, default_model >>

splitVars == << text, max_length, chunks, splitPc >>

vars == << contexts, lists, user_models, default_model, task,
          text, max_length, chunks, splitPc >>

UserTurn(content) == [role |-> "user", content |-> content]

AssistantTurn(content) == [role |-> "assistant", content |-> content]

(***************************************************************************)
(* ContextManager                                                          *)
(***************************************************************************)
\* the identities in use: stored for a user, or held by a task that runs
Referenced(ctx, tk) ==
    ({ctx[k] : k \in Keys} \cup {tk[t].messages : t \in Tasks}) \ {None}

\* a list that nothing refers to any more is gone
Collect(l, ctx, tk) ==
    [o \in ObjIds |-> IF o \in Referenced(ctx, tk) THEN l[o] ELSE <<>>]

\* the identity of a new list
NewList(ctx, tk) == SetMin(ObjIds \ Referenced(ctx, tk))

\* get_context, context_manager.py:29-38, as a value
History(ctx, l, k) == IF ctx[k] = None THEN <<>> ELSE l[ctx[k]]

\* get_context, context_manager.py:38: the stored list itself, or a new empty one
get_context(ctx, tk, k) == IF ctx[k] = None THEN NewList(ctx, tk) ELSE ctx[k]

\* an append that relies on the user turn the handler wrote and adds the
\* assistant turn only
append_reply_only(ctx, l, tk, k, user_message, bot_response) ==
    LET o == IF ctx[k] = None THEN NewList(ctx, tk) ELSE ctx[k]
    IN  [contexts |-> [ctx EXCEPT ![k] = o],
         lists    |-> [l EXCEPT ![o] = Append(@, AssistantTurn(bot_response))]]

\* a handler that has not stored the pair when it starts to send
no_update(ctx, l, tk, k, user_message, bot_response) ==
    [contexts |-> ctx, lists |-> l]

\* update_context, context_manager.py:15-27
update_context(ctx, l, tk, k, user_message, bot_response) ==
    LET o == IF ctx[k] = None THEN NewList(ctx, tk) ELSE ctx[k]
    IN  [contexts |-> [ctx EXCEPT ![k] = o],
         lists    |-> [l EXCEPT ![o] = @ \o << UserTurn(user_message),
                                              AssistantTurn(bot_response) >>]]

\* a clear that gives every registered user one new empty list
clear_everyone(ctx, tk, k) ==
    IF ctx[k] = None THEN ctx
    ELSE [j \in Keys |-> IF ctx[j] = None THEN None ELSE NewList(ctx, tk)]

\* a clear that deletes the entry of the user
forget_context(ctx, tk, k) == [ctx EXCEPT ![k] = None]

\* clear_context, context_manager.py:40-47: a new empty list for a known user
clear_context(ctx, tk, k) ==
    IF ctx[k] = None THEN ctx ELSE [ctx EXCEPT ![k] = NewList(ctx, tk)]

\* get_user_model, context_manager.py:58-67
get_user_model(um, k) == IF um[k] = NoEntry THEN GeminiFlashLite ELSE um[k]

\* sora.py:196-198: the model of a request; default_model is read only when
\* the model of the user is falsy
ResolveModel(um, dm, k) ==
    LET user_model == get_user_model(um, k)
    IN  IF user_model = "" THEN dm ELSE user_model

(***************************************************************************)
(* OpenRouterAPI.chat_completion_async: what it returns to the handler.    *)
(* A returned value is the error object built at openrouter.py:81 or :85,  *)
(* or the JSON body of the response, whatever its shape.                   *)
(***************************************************************************)
\* Python None where a str is expected: no text, marked
NoneValue == << [c |-> "None", ins |-> FALSE] >>

ResponseData(shape, content, message, code) ==
    [shape |-> shape, content |-> content, message |-> message, code |-> code]

\* a timeout that is reported by the general except clause
timeout_as_failure == ResponseData("error", <<>>, "Request failed: ", 500)

\* openrouter.py:79-81
TimedOut == ResponseData("error", <<>>, "Request timed out", 408)

\* openrouter.py:82-85, for an exception whose str() is e
RequestFailed(e) == ResponseData("error", <<>>, "Request failed: " \o e, 500)

\* str() of the exceptions of the request other than the timeout: no
\* connection (session.post), a body that is not JSON (response.json())
Exceptions == {"Cannot connect to host", "Attempt to decode JSON"}

\* openrouter.py:75-77: the bodies the service may answer with
\*   choices        {"choices": [{"message": {"content": r}}]}
\*   error          {"error": {"message": m, "code": c}}
\*   error_bare     {"error": {"code": c}}
\*   empty          {}
\*   choices_empty  {"choices": []}
\*   choices_bare   {"choices": [{}]}
\*   choices_null   {"choices": [{"message": {"content": null}}]}
Bodies ==
    { ResponseData("choices", r, "", 200) : r \in Replies }
    \cup { ResponseData("error", <<>>, "Rate limit exceeded", 429),
           ResponseData("choices_null", NoneValue, "", 200),
           ResponseData("error_bare", <<>>, "", 429),
           ResponseData("empty", <<>>, "", 200),
           ResponseData("choices_empty", <<>>, "", 200),
           ResponseData("choices_bare", <<>>, "", 200) }

\* openrouter.py:66-75: how the request ends: asyncio.TimeoutError is raised,
\* another exception is raised, or response.json() returns a body
NetworkOutcome(kind, e, body) == [kind |-> kind, e |-> e, body |-> body]

NetworkOutcomes ==
    {NetworkOutcome("timeout", "", ResponseData("none", <<>>, "", 0))}
    \cup {NetworkOutcome("exception", e, ResponseData("none", <<>>, "", 0)) :
              e \in Exceptions}
    \cup {NetworkOutcome("body", "", b) : b \in Bodies}

\* the request has not ended
NoOutcome == NetworkOutcome("none", "", ResponseData("none", <<>>, "", 0))

\* a call whose except clauses catch the timeout only: what it raises is
\* the value "raised"
timeout_only_completion(o) ==
    IF o.kind = "timeout" THEN TimedOut
    ELSE IF o.kind = "exception" THEN ResponseData("raised", <<>>, o.e, 0)
    ELSE o.body

\* openrouter.py:65-85: the value chat_completion_async returns
chat_completion_async(o) ==
    IF o.kind = "timeout" THEN TimedOut
    ELSE IF o.kind = "exception" THEN RequestFailed(o.e)
    ELSE o.body

\* openrouter.py:65-85: every value the call may return
Completions == {chat_completion_async(o) : o \in NetworkOutcomes}

\* no value yet
NoResponse == ResponseData("none", <<>>, "", 0)

\* sora.py:206: response_data and "choices" in response_data
HasChoices(rd) ==
    rd.shape \in {"choices", "choices_empty", "choices_bare", "choices_null"}

\* sora.py:207: response_data["choices"][0]["message"]["content"] raises
ContentRaises(rd) == rd.shape \in {"choices_empty", "choices_bare"}

\* sora.py:253: len(text) raises TypeError for None
SplitRaises(ai_response) == ai_response = NoneValue

\* sora.py:232: response_data and "error" in response_data
HasError(rd) == rd.shape \in {"error", "error_bare"}

(***************************************************************************)
(* Outbound messages.                                                       *)
(***************************************************************************)
Outbound(via, kind, chunk, detail, ref) ==
    [via |-> via, kind |-> kind, chunk |-> chunk, detail |-> detail, ref |-> ref]

\* the inbound message, as the reference of message.reply
Inbound == 0

\* sora.py:216: message.reply(chunks[0])
FirstReply(chunk) == Outbound("reply", "chunk", chunk, "", Inbound)

\* a follow-up that does not reference the first message
detached_followup(chunk, first_msg) == Outbound("send", "chunk", chunk, "", Inbound)

\* sora.py:226, 229: message.channel.send(chunk, reference=first_msg)
Followup(chunk, first_msg) == Outbound("send", "chunk", chunk, "", first_msg)

\* an error reply that never quotes the message of the error
generic_error_message(rd) ==
    [kind   |-> "An error occurred while processing your request.",
     detail |-> ""]

\* sora.py:231-233: the text of the error reply
error_message(rd) ==
    IF HasError(rd)
    THEN [kind   |-> "Error: ",
          detail |-> IF rd.shape = "error" THEN rd.message ELSE "Unknown error"]
    ELSE [kind   |-> "An error occurred while processing your request.",
          detail |-> ""]

\* sora.py:234: message.reply(error_message)
ErrorReply(rd) ==
    Outbound("reply", error_message(rd).kind, <<>>, error_message(rd).detail, Inbound)

\* sora.py:240
TryLaterReply ==
    Outbound("reply",
             "An error occurred while processing your request. Please try again later.",
             <<>>, "", Inbound)

NoOutbound == Outbound("none", "", <<>>, "", Inbound)

\* sora.py:223-229: a chunk longer than the hard limit goes out in slices of
\* the chunk limit
Pieces(chunk) ==
    IF Len(chunk) > HardLimit THEN ForceSlices(chunk, 0, ChunkLimit) ELSE << chunk >>

RECURSIVE FollowupQueue(_, _)
\* sora.py:220-229: what the loop over chunks[1:] will send, in order
FollowupQueue(cs, i) ==
    IF i > Len(cs) THEN <<>> ELSE Pieces(cs[i]) \o FollowupQueue(cs, i + 1)

(***************************************************************************)
(* The on_message tasks.  pc is the await a task is suspended at:          *)
(*   typing       sora.py:201, entering message.channel.typing()           *)
(*   completing   sora.py:204, chat_completion_async                       *)
(*   sending      sora.py:216, 226, 229, 234, a send inside the try block  *)
(*   sleeping     sora.py:221, 227, asyncio.sleep                          *)
(*   apologising  sora.py:240, the reply of the except block               *)
(* done: the handler returned; crashed: it raised; the locals of a task     *)
(* that ended are gone, and so is a local that is not read again.  hist0,  *)
(* alone and outcome record the run and are read by no action: hist0 is    *)
(* the history of the user when the message arrived, alone says that       *)
(* nothing but this task changed that history since, outcome is how the    *)
(* request of the task ended.                                              *)
(***************************************************************************)
IdleTask ==
    [pc            |-> "idle",
     user_id       |-> "",
     question      |-> <<>>,
     messages      |-> None,
     user_model    |-> "",
     request       |-> [model |-> "", messages |-> <<>>, max_tokens |-> 0],
     response_data |-> NoResponse,
     outcome       |-> NoOutcome,
     inflight      |-> NoOutbound,
     todo          |-> <<>>,
     sent          |-> <<>>,
     first_msg     |-> 0,
     hist0         |-> <<>>,
     alone         |-> TRUE]

\* the other tasks of user k learn that its history was changed
Touch(tk, actor, k, changed) ==
    [t \in Tasks |->
        IF changed /\ t # actor /\ tk[t].pc # "idle" /\ tk[t].user_id = k
        THEN [tk[t] EXCEPT !.alone = FALSE] ELSE tk[t]]

Init ==
    /\ contexts = [k \in Keys |-> None]
    /\ lists = [o \in ObjIds |-> <<>>]
    /\ user_models = [k \in Keys |-> NoEntry]
    /\ default_model = GeminiFlashLite
    /\ task = [t \in Tasks |-> IdleTask]
    /\ text = <<>>
    /\ max_length = 1
    /\ chunks = <<>>
    /\ splitPc = "idle"

\* sora.py:175-201: a message of user k with content q passed the checks of
\* lines 184-188; the handler runs to the await of line 201
Receive(t, k, q) ==
    /\ task[t].pc = "idle"
    /\ \A u \in Tasks : u < t => task[u].pc # "idle"
    /\ LET messages == get_context(contexts, task, k)
           appended == [lists EXCEPT ![messages] = Append(@, UserTurn(q))]
           changed  == History(contexts, appended, k) # History(contexts, lists, k)
       IN  /\ lists' = appended
           /\ task' = [Touch(task, t, k, changed) EXCEPT ![t] =
                         [IdleTask EXCEPT !.pc = "typing",
                                          !.user_id = k,
                                          !.question = q,
                                          !.messages = messages,
                                          !.user_model =
                                              ResolveModel(user_models, default_model, k),
                                          !.hist0 = History(contexts, lists, k)]]
    /\ UNCHANGED << contexts, user_models, default_model >>
    /\ UNCHANGED splitVars

\* sora.py:201-204 and openrouter.py:54-72: the typing indicator is on, the
\* request is built from messages as they are now and posted
TypingOk(t) ==
    /\ task[t].pc = "typing"
    /\ task' = [task EXCEPT ![t].pc = "completing",
                            ![t].user_model = "",
                            ![t].request = [model      |-> task[t].user_model,
                                            messages   |-> lists[task[t].messages],
                                            max_tokens |-> 1000]]
    /\ UNCHANGED storeVars
    /\ UNCHANGED splitVars

\* the task ends: its locals are gone
Ended(tk, t, pc) == [tk EXCEPT ![t] = [IdleTask EXCEPT !.pc = pc]]

\* sora.py:201: entering typing() raises, outside the try block
TypingFail(t) ==
    /\ task[t].pc = "typing"
    /\ task' = Ended(task, t, "crashed")
    /\ lists' = Collect(lists, contexts, task')
    /\ UNCHANGED << contexts, user_models, default_model >>
    /\ UNCHANGED splitVars

\* sora.py:206-216: the response holds a reply: store the pair, split the
\* reply, send the first chunk; when the split raises (236-240) the except
\* block replies
Commit(t, o, rd) ==
    LET k      == task[t].user_id
        stored == update_context(contexts, lists, task, k,
                                 task[t].question, rd.content)
        cs     == smart_split_text(rd.content, ChunkLimit)
    IN  /\ contexts' = stored.contexts
        /\ lists' = stored.lists
        /\ task' = [Touch(task, t, k, TRUE) EXCEPT
                        ![t].pc = IF SplitRaises(rd.content)
                                  THEN "apologising" ELSE "sending",
                        ![t].response_data = rd,
                        ![t].outcome = o,
                        ![t].request = IdleTask.request,
                        ![t].inflight = IF SplitRaises(rd.content)
                                        THEN TryLaterReply ELSE FirstReply(cs[1]),
                        ![t].todo = IF SplitRaises(rd.content)
                                    THEN <<>> ELSE FollowupQueue(cs, 2)]

\* sora.py:207, 236-240: reading the reply raises; the except block replies
Mismatch(t, o, rd) ==
    /\ task' = [task EXCEPT ![t].pc = "apologising",
                            ![t].response_data = rd,
                            ![t].outcome = o,
                            ![t].request = IdleTask.request,
                            ![t].inflight = TryLaterReply]
    /\ UNCHANGED << contexts, lists >>

\* sora.py:230-234: no choices: one error reply
Refuse(t, o, rd) ==
    /\ task' = [task EXCEPT ![t].pc = "sending",
                            ![t].response_data = rd,
                            ![t].outcome = o,
                            ![t].request = IdleTask.request,
                            ![t].inflight = ErrorReply(rd)]
    /\ UNCHANGED << contexts, lists >>

\* openrouter.py:65-85 and sora.py:204-234: the request ends with o,
\* chat_completion_async returns and the handler runs to its next await
Complete(t, o) ==
    /\ task[t].pc = "completing"
    /\ LET rd == chat_completion_async(o)
       IN  IF HasChoices(rd)
           THEN IF ContentRaises(rd) THEN Mismatch(t, o, rd) ELSE Commit(t, o, rd)
           ELSE Refuse(t, o, rd)
    /\ UNCHANGED << user_models, default_model >>
    /\ UNCHANGED splitVars

\* a send returned: the message exists.  After the reply of line 216 the loop
\* of line 220 sleeps before each chunk that is left
SendOk(t) ==
    /\ task[t].pc \in {"sending", "apologising"}
    /\ LET delivered == [task EXCEPT
                           ![t].sent = Append(@, task[t].inflight),
                           ![t].first_msg = IF task[t].inflight.via = "reply"
                                            THEN Len(task[t].sent) + 1 ELSE @,
                           ![t].inflight = NoOutbound]
       IN  task' = IF task[t].pc = "sending" /\ task[t].todo # <<>>
                   THEN [delivered EXCEPT ![t].pc = "sleeping"]
                   ELSE Ended(delivered, t, "done")
    /\ lists' = Collect(lists, contexts, task')
    /\ UNCHANGED << contexts, user_models, default_model >>
    /\ UNCHANGED splitVars

\* sora.py:221-229: the sleep is over, the next chunk is sent
Wake(t) ==
    /\ task[t].pc = "sleeping"
    /\ task' = [task EXCEPT ![t].pc = "sending",
                            ![t].inflight = Followup(Head(task[t].todo),
                                                     task[t].first_msg),
                            ![t].todo = Tail(@)]
    /\ UNCHANGED storeVars
    /\ UNCHANGED splitVars

\* a failed send after which the loop over the chunks would go on
send_fail_keeps_chunks(t) ==
    /\ task[t].pc = "sending"
    /\ task' = [task EXCEPT ![t].pc = "apologising",
                            ![t].inflight = TryLaterReply]
    /\ UNCHANGED storeVars
    /\ UNCHANGED splitVars

\* sora.py:236-240: a send of the try block raises; the except block replies
SendFail(t) ==
    /\ task[t].pc = "sending"
    /\ task' = [task EXCEPT ![t].pc = "apologising",
                            ![t].inflight = TryLaterReply,
                            ![t].todo = <<>>]
    /\ UNCHANGED storeVars
    /\ UNCHANGED splitVars

\* sora.py:240: the reply of the except block raises: the handler raises
ApologyFail(t) ==
    /\ task[t].pc = "apologising"
    /\ task' = Ended(task, t, "crashed")
    /\ lists' = Collect(lists, contexts, task')
    /\ UNCHANGED << contexts, user_models, default_model >>
    /\ UNCHANGED splitVars

\* sora.py:167-172: /clear_context of user k
ClearContext(k) ==
    /\ contexts' = clear_context(contexts, task, k)
    /\ task' = Touch(task, 0, k, History(contexts, lists, k) # <<>>)
    /\ lists' = Collect(lists, contexts', task')
    /\ UNCHANGED << user_models, default_model >>
    /\ UNCHANGED splitVars

\* sora.py:130-142: /set_model of user k; permitted is the check of line 138
\* (the user is an administrator, or users may select their model)
SetModel(k, model_id, permitted) ==
    /\ user_models' = IF permitted
                      THEN [user_models EXCEPT ![k] = model_id]
                      ELSE user_models
    /\ UNCHANGED << contexts, lists, default_model, task >>
    /\ UNCHANGED splitVars

\* sora.py:144-155: /set_default_model
SetDefaultModel(model_id, administrator) ==
    /\ default_model' = IF administrator THEN model_id ELSE default_model
    /\ UNCHANGED << contexts, lists, user_models, task >>
    /\ UNCHANGED splitVars

Next ==
    \/ \E t \in Tasks, k \in Keys, q \in Questions : Receive(t, k, q)
    \/ \E t \in Tasks : TypingOk(t)
    \/ \E t \in Tasks : TypingFail(t)
    \/ \E t \in Tasks, o \in NetworkOutcomes : Complete(t, o)
    \/ \E t \in Tasks : SendOk(t)
    \/ \E t \in Tasks : Wake(t)
    \/ \E t \in Tasks : SendFail(t)
    \/ \E t \in Tasks : ApologyFail(t)
    \/ \E k \in Keys : ClearContext(k)
    \/ \E k \in Keys, m \in ModelIds, a \in BOOLEAN : SetModel(k, m, a)
    \/ \E m \in ModelIds, a \in BOOLEAN : SetDefaultModel(m, a)

Spec == Init /\ [][Next]_vars

(***************************************************************************)
(* One call of smart_split_text on its own.                                *)
(***************************************************************************)
SplitInit ==
    /\ contexts = [k \in Keys |-> None]
    /\ lists = [o \in ObjIds |-> <<>>]
    /\ user_models = [k \in Keys |-> NoEntry]
    /\ default_model = GeminiFlashLite
    /\ task = [t \in Tasks |-> IdleTask]
    /\ text \in Texts
    /\ max_length \in 1..MaxLength
    /\ chunks = <<>>
    /\ splitPc = "call"

\* sora.py:242-349
SplitCall ==
    /\ splitPc = "call"
    /\ chunks' = smart_split_text(text, max_length)
    /\ splitPc' = "return"
    /\ UNCHANGED << text, max_length >>
    /\ UNCHANGED storeVars
    /\ UNCHANGED task

SplitNext == SplitCall

SplitSpec == SplitInit /\ [][SplitNext]_vars

(***************************************************************************)
(* Properties of the message handler and the store, checked under Spec.    *)
(***************************************************************************)
StoredHistory(k) == History(contexts, lists, k)

\* the completion call of task t returned an error object (a Failure)
GotFailure(t) == task[t].response_data.shape = "error"

\* the completion call of task t returned a reply (a Success)
GotSuccess(t) == task[t].response_data.shape = "choices"

\* C1: when the completion call for a message of user K returns a Failure,
\* the history of K is what it was just before the message was received,
\* also for a user that already has a history or was cleared (stated for a
\* task that was alone in changing the history of K)
C1_FailureLeavesHistory ==
    \A t \in Tasks :
        (GotFailure(t) /\ task[t].alone)
            => StoredHistory(task[t].user_id) = task[t].hist0

\* C2: when the completion call for a message with text u returns Success
\* with reply r, the history of K is the history before the message followed
\* by exactly the two turns {user: u}, {assistant: r}
C2_SuccessAppendsOnePair ==
    \A t \in Tasks :
        (GotSuccess(t) /\ task[t].alone)
            => StoredHistory(task[t].user_id) =
                   task[t].hist0 \o << UserTurn(task[t].question),
                                       AssistantTurn(task[t].response_data.content) >>

\* C3: while a request of K is in flight (the history was read, the
\* completion call has not returned) the stored history of K does not hold
\* the pending user text: it is still the history that was read
C3_PendingTextNotStored ==
    \A t \in Tasks :
        (task[t].pc \in {"typing", "completing"} /\ task[t].alone)
            => StoredHistory(task[t].user_id) = task[t].hist0

\* a history of pairs: user, assistant, user, assistant, ...
Alternates(h) ==
    /\ Len(h) % 2 = 0
    /\ \A i \in 1..Len(h) :
           h[i].role = IF i % 2 = 1 THEN "user" ELSE "assistant"

\* C4: in every reachable state the stored history of every user has even
\* length and alternates user, assistant, ... starting with user
C4_HistoryAlternates == \A k \in Keys : Alternates(StoredHistory(k))

\* C6: the model of a request of user K is the override stored for K if
\* there is one, and the current process-wide default model otherwise
C6_RequestModel ==
    [][\A t \in Tasks :
           (task[t].pc = "idle" /\ task'[t].pc = "typing")
               => task'[t].user_model =
                      IF user_models[task'[t].user_id] # NoEntry
                      THEN user_models[task'[t].user_id]
                      ELSE default_model]_vars

\* the handler of task t ends in this step
Finishes(t) ==
    /\ task[t].pc \notin {"idle", "done", "crashed"}
    /\ task'[t].pc \in {"done", "crashed"}

\* the messages task t has sent when its handler ends in this step
Outcome(t) ==
    IF task'[t].pc = "done"
    THEN Append(task[t].sent, task[t].inflight)
    ELSE task[t].sent

\* the reply whose text is derived from the message of the error object
DerivedReply(rd) == Outbound("reply", "Error: ", <<>>, rd.message, Inbound)

\* what task t has sent, is sending and is going to send
Outgoing(t) ==
    {task[t].sent[i] : i \in 1..Len(task[t].sent)}
        \cup {task[t].inflight}
        \cup {Followup(task[t].todo[i], task[t].first_msg) : i \in 1..Len(task[t].todo)}

\* C5 as stated: when the completion call returns a Failure the handler sends
\* exactly one message, whose text is derived from the message of the
\* failure, and no reply chunk
C5_FailureSendsOneDerivedMessage ==
    [][\A t \in Tasks :
           (GotFailure(t) /\ Finishes(t))
               => Outcome(t) = << DerivedReply(task[t].response_data) >>]_vars

\* C5 as amended: after a Failure the handler sends no reply chunk; the one
\* send of its try block carries the text derived from the message of the
\* failure, and when that send returns it is the only message; when it
\* raises, the except block replies once with the generic text in its place
C5_FailureReplyOrApology ==
    [][\A t \in Tasks :
           GotFailure(t) =>
               /\ \A m \in Outgoing(t) : m.kind # "chunk"
               /\ task[t].pc \in {"sending", "apologising"}
               /\ task[t].sent = <<>>
               /\ task[t].pc = "sending"
                     => task[t].inflight = DerivedReply(task[t].response_data)
               /\ task[t].pc = "apologising"
                     => task[t].inflight = TryLaterReply
               /\ (Finishes(t) /\ task[t].pc = "sending")
                     => Outcome(t) = << DerivedReply(task[t].response_data) >>
               /\ (Finishes(t) /\ task[t].pc = "apologising")
                     => Outcome(t) \in { << TryLaterReply >>, <<>> }]_vars

\* a Failure was returned and the derived reply is being sent
C5_Witness ==
    \E t \in Tasks :
        /\ GotFailure(t)
        /\ task[t].pc = "sending"
        /\ task[t].inflight = DerivedReply(task[t].response_data)
        /\ task[t].response_data.code = 408

(***************************************************************************)
(* Properties of smart_split_text, checked under SplitSpec.                *)
(***************************************************************************)
\* s without the characters of the fence markers the splitter added
WithoutInserted(s) == SelectSeq(s, LAMBDA ch : ~ch.ins)

\* s ends with pat
endswith(s, pat) ==
    Len(pat) <= Len(s) /\ OccursAt(s, Len(s) - Len(pat) + 1, pat)

\* C7: for every text and every max_length > 0 the result is not empty and
\* every chunk is at most max_length long, also a chunk that got a closing
\* fence marker or a fence opener
C7_ChunksWithinLimit ==
    splitPc = "return" =>
        /\ Len(chunks) >= 1
        /\ \A i \in 1..Len(chunks) : Len(chunks[i]) <= max_length

\* a split in which one chunk got a closing marker and the next an opener
C7_Witness ==
    /\ splitPc = "return"
    /\ Len(text) > max_length
    /\ \E i \in 1..(Len(chunks) - 1) :
           /\ endswith(chunks[i], <<"\n">> \o Fence)
           /\ chunks[i][Len(chunks[i])].ins
           /\ startswith(chunks[i + 1], Fence)
           /\ chunks[i + 1][1].ins
           /\ Len(chunks[i]) = max_length

\* C8: the chunks, in order and without the fence markers the splitter
\* added, concatenate to exactly the text
C8_ConcatenationIsText ==
    splitPc = "return" =>
        Plain(WithoutInserted(Flatten(chunks))) = Plain(text)

\* one run of characters that are neither whitespace nor backticks
IsRun(s) == \A i \in 1..Len(s) : ~IsSpace(s[i]) /\ s[i].c # Tick

CeilDiv(a, b) == (a + b - 1) \div b

\* C9: a run of L such characters, L > max_length, is split into exactly
\* ceil(L / max_length) chunks, all of length max_length but the last, which
\* holds the remainder
C9_RunSplitEvenly ==
    (splitPc = "return" /\ IsRun(text) /\ Len(text) > max_length) =>
        LET n == CeilDiv(Len(text), max_length)
        IN  /\ Len(chunks) = n
            /\ \A i \in 1..Len(chunks) :
                   Len(chunks[i]) = IF i < n THEN max_length
                                    ELSE Len(text) - (n - 1) * max_length

\* the backticks of s that come from the text
SourceTicks(s) == Cardinality({i \in 1..Len(s) : s[i].c = Tick /\ ~s[i].ins})

RECURSIVE SourceTicksUpTo(_, _)
SourceTicksUpTo(cs, i) ==
    IF i = 0 THEN 0 ELSE SourceTicks(cs[i]) + SourceTicksUpTo(cs, i - 1)

\* where the two markers of a text with two markers start
OpenAt(s) == SetMin({i \in 1..Len(s) : OccursAt(s, i, Fence)})

CloseAt(s) == SetMax({i \in 1..Len(s) : OccursAt(s, i, Fence)})

\* the end of the line of the opening marker
TagEnd(s) == SetMin({i \in (OpenAt(s) + 3)..Len(s) : s[i].c = "\n"})

\* the language tag of the block: the rest of the line of the opening marker
LangTag(s) == SubSeq(s, OpenAt(s) + 3, TagEnd(s) - 1)

\* one well-formed fenced block: an opening marker at the start of a line,
\* followed by a tag without blanks or by nothing, and a closing marker on a
\* line of its own
OneFencedBlock(s) ==
    /\ count(s, Fence) = 2
    /\ Cardinality({i \in 1..Len(s) : s[i].c = Tick}) = 6
    /\ OpenAt(s) = 1 \/ s[OpenAt(s) - 1].c = "\n"
    /\ \E n \in (OpenAt(s) + 3)..(CloseAt(s) - 1) : s[n].c = "\n"
    /\ \A i \in 1..Len(LangTag(s)) : ~IsSpace(LangTag(s)[i])
    /\ s[CloseAt(s) - 1].c = "\n"
    /\ CloseAt(s) + 2 = Len(s) \/ s[CloseAt(s) + 3].c = "\n"

\* C10: when one well-formed fenced block, with or without a language tag,
\* spans a split, the chunk before the split ends with a closing fence
\* marker and the next chunk begins with an opener with the tag of the block
C10_FenceClosedAndReopened ==
    (splitPc = "return" /\ OneFencedBlock(text)) =>
        \A i \in 1..(Len(chunks) - 1) :
            SourceTicksUpTo(chunks, i) = 3 =>
                /\ count(chunks[i], Fence) >= 2
                /\ endswith(chunks[i], Fence)
                /\ startswith(chunks[i + 1],
                              Fence \o Plain(LangTag(text)) \o <<"\n">>)

\* where the fence markers of s start
MarkerStarts(s) == {i \in 1..Len(s) : OccursAt(s, i, Fence)}

\* well-formed, non-nested fences: the backticks of s come in markers of
\* exactly three, the markers pair up as opener and closer, each marker
\* starts a line, an opener is followed on its line by a tag without blanks
\* or by nothing, and a closer ends its line
WellFormedFences(s) ==
    LET P       == MarkerStarts(s)
        rank(p) == Cardinality({q \in P : q <= p})
    IN  /\ Cardinality({i \in 1..Len(s) : s[i].c = Tick}) = 3 * Cardinality(P)
        /\ Cardinality(P) % 2 = 0
        /\ \A p \in P :
              /\ p = 1 \/ s[p - 1].c = "\n"
              /\ rank(p) % 2 = 0 => (p + 2 = Len(s) \/ s[p + 3].c = "\n")
              /\ rank(p) % 2 = 1 =>
                    \E n \in (p + 3)..Len(s) :
                        /\ s[n].c = "\n"
                        /\ \A j \in (p + 3)..(n - 1) : s[j].c # " "

\* C11: for a text with well-formed, non-nested fences, every chunk holds an
\* even number of fence markers: a fence opened in a chunk is closed before
\* the chunk ends (stated for the results in which the final pass had no
\* chunk to cut)
C11_ChunksFenceBalanced ==
    (/\ splitPc = "return"
     /\ WellFormedFences(text)
     /\ Len(text) > max_length
     /\ chunks = paragraph_chunks(text, max_length)) =>
        \A i \in 1..Len(chunks) : count(chunks[i], Fence) % 2 = 0

\* C12: a text that is not longer than max_length, the empty text included,
\* is returned as the one chunk of the result, unchanged
C12_ShortTextUnchanged ==
    (splitPc = "return" /\ Len(text) <= max_length) => chunks = << text >>

\* a text of exactly max_length characters with an unpaired fence marker and
\* blanks at its ends was returned
C12_Witness ==
    /\ splitPc = "return"
    /\ Len(text) = max_length
    /\ count(text, Fence) = 1
    /\ IsSpace(text[1])
    /\ IsSpace(text[Len(text)])
    /\ chunks = << text >>

\* the sends task t has issued so far, in the order of issue: those that
\* returned and the one of the try block that is pending
Issued(t) ==
    task[t].sent \o (IF task[t].pc = "sending" THEN << task[t].inflight >> ELSE <<>>)

\* C13: for a successful reply split into c1..cn, c1 is sent as a reply to
\* the inbound message, every later ci as a follow-up that references the
\* message created by c1, the sends are issued in index order, and send i+1
\* is issued only when the sends 1..i have returned
C13_ChunksSentInOrder ==
    \A t \in Tasks :
        GotSuccess(t) =>
            LET cs  == smart_split_text(task[t].response_data.content, ChunkLimit)
                iss == Issued(t)
            IN  /\ Len(iss) <= Len(cs)
                /\ Len(iss) <= Len(task[t].sent) + 1
                /\ \A i \in 1..Len(iss) :
                       /\ iss[i].kind = "chunk"
                       /\ iss[i].chunk = cs[i]
                       /\ i = 1 => iss[i].via = "reply" /\ iss[i].ref = Inbound
                       /\ i > 1 => /\ iss[i].via = "send"
                                   /\ iss[i].ref = 1
                                   /\ task[t].first_msg = 1
                                   /\ Len(task[t].sent) >= i - 1
                /\ task[t].pc \in {"sending", "sleeping"}
                       => task[t].todo = SubSeq(cs, Len(iss) + 1, Len(cs))

\* the third chunk of a reply is being sent after the first two were delivered
C13_Witness ==
    \E t \in Tasks :
        /\ GotSuccess(t)
        /\ task[t].pc = "sending"
        /\ Len(task[t].sent) = 2
        /\ task[t].inflight.via = "send"
        /\ task[t].todo = <<>>

\* the request of task t has ended and the call has returned to the handler
Returned(t) == task[t].outcome.kind # "none"

ShapeMismatch(t) ==
    /\ task[t].outcome.kind = "body"
    /\ task[t].outcome.body.shape \in
           {"empty", "choices_empty", "choices_bare", "choices_null"}

\* the assistant turns of history h
AssistantTurns(h) == SelectSeq(h, LAMBDA turn : turn.role = "assistant")

\* C16: a body without the envelope choices[0].message.content is handled
\* as a Failure: no pair is stored for the message, the handler sends no
\* chunk but an error message, and it does not crash on the body
C16_ShapeMismatchIsFailure ==
    \A t \in Tasks :
        (ShapeMismatch(t) /\ task[t].alone) =>
            /\ AssistantTurns(StoredHistory(task[t].user_id))
                   = AssistantTurns(task[t].hist0)
            /\ task[t].pc \in {"sending", "apologising"}
            /\ task[t].sent = <<>>
            /\ task[t].inflight.via = "reply"
            /\ task[t].inflight.kind # "chunk"

\* user k has an entry in contexts
Registered(k) == contexts[k] # None

\* C17: a user that has a history entry has one in every later state: no
\* step removes a user from the store, and /clear_context of a registered
\* user leaves the user registered with the empty history, also right after
\* a pair was appended
C17_KeyPersists ==
    [][\A k \in Keys :
           Registered(k) =>
               /\ Registered(k)'
               /\ ClearContext(k) => StoredHistory(k)' = <<>>]_vars

\* a registered user whose history is empty while a task still holds the list
\* that was stored before, with the pair that was appended to it: the
\* history was cleared after the append
C17_Witness ==
    \E t \in Tasks :
        /\ task[t].user_id \in Keys
        /\ Registered(task[t].user_id)
        /\ StoredHistory(task[t].user_id) = <<>>
        /\ task[t].messages # None
        /\ task[t].messages # contexts[task[t].user_id]
        /\ AssistantTurns(lists[task[t].messages]) # <<>>

\* every assistant turn of h comes right after a user turn
PairsIntact(h) ==
    \A i \in 1..Len(h) :
        h[i].role = "assistant" => (i > 1 /\ h[i - 1].role = "user")

\* the two turns task t appends when its completion call returns a reply
AppendedPair(t) ==
    << UserTurn(task[t].question), AssistantTurn(task'[t].response_data.content) >>

\* C18: under every interleaving of the tasks, for the same user or for
\* different users, the user turn of an append is immediately followed by
\* the assistant turn of the same append: a step leaves a list as it is,
\* drops it, adds one pending user turn at its end, or adds at its end the
\* two turns of one task together; no turn is ever placed between them
C18_PairNeverBroken ==
    [][/\ \A o \in ObjIds :
              \/ lists'[o] = lists[o]
              \/ lists'[o] = <<>>
              \/ \E q \in Questions : lists'[o] = Append(lists[o], UserTurn(q))
              \/ \E t \in Tasks :
                     /\ task[t].pc = "completing"
                     /\ task'[t].pc # "completing"
                     /\ lists'[o] = lists[o] \o AppendedPair(t)
       /\ \A o \in ObjIds : PairsIntact(lists'[o])]_vars

\* two tasks of one user were in flight together and both have appended
\* their pair
C18_Witness ==
    \E t, u \in Tasks :
        /\ t # u
        /\ GotSuccess(t) /\ GotSuccess(u)
        /\ task[t].user_id = task[u].user_id
        /\ ~task[t].alone
        /\ Len(AssistantTurns(StoredHistory(task[t].user_id))) = 2

\* a send of the try block of task t raises in this step while the task is
\* dispatching a reply
SendFails(t) ==
    /\ GotSuccess(t)
    /\ task[t].pc = "sending"
    /\ task'[t].pc = "apologising"

\* the reply of task t failed to go out and the except block is replying
Apologising(t) == GotSuccess(t) /\ task[t].pc = "apologising"

\* the next inbound message can be received
CanReceive == ENABLED (\E u \in Tasks, k \in Keys, q \in Questions : Receive(u, k, q))

\* this step changes nothing of the store and of the tasks other than t
OthersUntouched(t) ==
    /\ \A k \in Keys : StoredHistory(k)' = StoredHistory(k)
    /\ user_models' = user_models
    /\ default_model' = default_model
    /\ \A u \in Tasks \ {t} : task'[u] = task[u]

\* C19 as stated: when a send fails while the reply of a message is
\* dispatched, the task sends exactly one generic error message and no
\* further chunk
C19_SendFailureOneGenericMessage ==
    [][\A t \in Tasks :
           (Apologising(t) /\ Finishes(t))
               => Outcome(t) = Append(task[t].sent, TryLaterReply)]_vars

\* C19 as amended: when a send fails while the reply of a message is
\* dispatched, the task issues exactly one reply with the generic error text
\* and no further chunk; when that reply returns it is the last message of
\* the task, when it raises the handler raises and sends nothing more; the
\* failing steps change no history, no model preference and no other task,
\* and an inbound message can still be received
C19_SendFailureContained ==
    [][\A t \in Tasks :
           /\ SendFails(t) =>
                 /\ task'[t].inflight = TryLaterReply
                 /\ task'[t].todo = <<>>
                 /\ task'[t].sent = task[t].sent
                 /\ OthersUntouched(t)
           /\ Apologising(t) =>
                 /\ task[t].inflight = TryLaterReply
                 /\ task[t].todo = <<>>
                 /\ \A i \in 1..Len(task[t].sent) : task[t].sent[i].kind = "chunk"
                 /\ task'[t].pc \in {"apologising", "done", "crashed"}
                 /\ task'[t].pc = "apologising" =>
                        /\ task'[t].sent = task[t].sent
                        /\ task'[t].inflight = task[t].inflight
                        /\ task'[t].todo = task[t].todo
                 /\ Finishes(t) =>
                        /\ Outcome(t) \in { Append(task[t].sent, TryLaterReply),
                                            task[t].sent }
                        /\ OthersUntouched(t)
                 /\ (\E u \in Tasks : task[u].pc = "idle") => CanReceive]_vars

\* the second chunk of a reply failed to go out after the first was
\* delivered, while a request of another user is in flight
C19_Witness ==
    \E t, u \in Tasks :
        /\ Apologising(t)
        /\ Len(task[t].sent) = 1
        /\ task[u].pc = "completing"
        /\ task[u].user_id # task[t].user_id

\* chunk ch begins with a fence opener the splitter wrote: a marker and the
\* rest of its line (a closing marker it wrote is the end of its chunk)
BeginsWithInsertedOpener(ch) ==
    /\ Len(ch) > 3
    /\ startswith(ch, Fence)
    /\ \A j \in 1..4 : ch[j].ins

\* C20: a chunk begins with an inserted fence opener only if a fence is open
\* in the text at the point where the chunk starts, that is, if an odd
\* number of markers of the text lies before it: after a block was closed in
\* the text no later chunk starts with a re-opening marker
C20_ReopenOnlyInsideBlock ==
    (splitPc = "return" /\ WellFormedFences(text)) =>
        \A i \in 1..(Len(chunks) - 1) :
            BeginsWithInsertedOpener(chunks[i + 1])
                => SourceTicksUpTo(chunks, i) % 6 = 3

\* history h holds, next to each other, the two turns of the reply of the
\* task with record tr
HasPair(h, tr) ==
    \E i \in 1..(Len(h) - 1) :
        /\ h[i] = UserTurn(tr.question)
        /\ h[i + 1] = AssistantTurn(tr.response_data.content)

\* history h ends with the two turns of the reply of the task with record tr
EndsWithPair(h, tr) ==
    /\ Len(h) >= 2
    /\ h[Len(h) - 1] = UserTurn(tr.question)
    /\ h[Len(h)] = AssistantTurn(tr.response_data.content)

\* the task with record tr got a reply and is sending it, or apologising for
\* a send that failed
Dispatching(tr) ==
    /\ tr.response_data.shape = "choices"
    /\ tr.pc \in {"sending", "sleeping", "apologising"}

\* C21: on Success the pair is stored before the first send of the reply is
\* issued: when the first chunk is handed to the send the history of the
\* user ends with the pair, and the pair stays in the history in every later
\* state of the dispatch, also after a send of the reply failed, unless the
\* history is cleared
C21_PairStoredBeforeSend ==
    [][\A t \in Tasks :
           Dispatching(task'[t]) =>
               LET k     == task'[t].user_id
                   after == History(contexts', lists', k)
               IN  /\ task[t].pc = "completing" =>
                          /\ task'[t].sent = <<>>
                          /\ EndsWithPair(after, task'[t])
                   /\ task'[t].alone => EndsWithPair(after, task'[t])
                   /\ (/\ Dispatching(task[t])
                       /\ HasPair(StoredHistory(k), task[t])
                       /\ ~ClearContext(k))
                          => HasPair(after, task'[t])]_vars

\* the first chunk of a reply was delivered, a later send failed, and the
\* pair of the reply is in the history
C21_Witness ==
    \E t \in Tasks :
        /\ Dispatching(task[t])
        /\ task[t].pc = "apologising"
        /\ Len(task[t].sent) >= 1
        /\ HasPair(StoredHistory(task[t].user_id), task[t])

(***************************************************************************)
(* The handler after one exchange: u1 has sent a message, got the short    *)
(* reply and the handler has returned, so the store holds one pair for u1. *)
(***************************************************************************)
EarlierQuestion == CHOOSE q \in Questions : TRUE

EarlierReply == Src(<<"o", "k">>)

WarmInit ==
    /\ contexts = [k \in Keys |-> IF k = "u1" THEN 1 ELSE None]
    /\ lists = [o \in ObjIds |->
                   IF o = 1
                   THEN << UserTurn(EarlierQuestion), AssistantTurn(EarlierReply) >>
                   ELSE <<>>]
    /\ user_models = [k \in Keys |-> NoEntry]
    /\ default_model = GeminiFlashLite
    /\ task = [t \in Tasks |-> IdleTask]
    /\ text = <<>>
    /\ max_length = 1
    /\ chunks = <<>>
    /\ splitPc = "idle"

\* the messages, the completions, the sends and /clear_context; the model
\* commands are left out, they do not touch the messages of a request
WarmNext ==
    \/ \E t \in Tasks, k \in Keys, q \in Questions : Receive(t, k, q)
    \/ \E t \in Tasks : TypingOk(t)
    \/ \E t \in Tasks : TypingFail(t)
    \/ \E t \in Tasks, o \in NetworkOutcomes : Complete(t, o)
    \/ \E t \in Tasks : SendOk(t)
    \/ \E t \in Tasks : Wake(t)
    \/ \E t \in Tasks : SendFail(t)
    \/ \E t \in Tasks : ApologyFail(t)
    \/ \E k \in Keys : ClearContext(k)

WarmSpec == WarmInit /\ [][WarmNext]_vars

RECURSIVE CommittedFrom(_, _)
CommittedFrom(h, i) ==
    IF i > Len(h) THEN <<>>
    ELSE IF i > 1 /\ h[i].role = "assistant"
         THEN << h[i - 1], h[i] >> \o CommittedFrom(h, i + 1)
         ELSE CommittedFrom(h, i + 1)

\* the turns of h that update_context appended: every assistant turn with the
\* user turn in front of it
CommittedTurns(h) == CommittedFrom(h, 1)

\* C22: the messages of a completion request of user K are the turns
\* committed for K by successful appends since the last clear, in order,
\* followed by exactly one user turn with the pending text of the request;
\* no pending text of an earlier failed request and none of another request
\* of K that is in flight is among them
C22_PayloadIsCommittedPlusPending ==
    \A t \in Tasks :
        task[t].pc = "completing" =>
            task[t].request.messages =
                Append(CommittedTurns(task[t].hist0), UserTurn(task[t].question))

\* C23: for a text longer than max_length that holds a character other than
\* whitespace no chunk of the result is the empty string, so the first chunk,
\* the one handed to the first send, is not empty
C23_NoEmptyChunk ==
    (splitPc = "return" /\ Len(text) > max_length /\ strip(text) # <<>>) =>
        \A i \in 1..Len(chunks) : chunks[i] # <<>>

\* this step is a step of the handler of a message of user k
HandlerStepOf(k) ==
    \/ \E t \in Tasks, q \in Questions : Receive(t, k, q)
    \/ \E t \in Tasks :
           /\ task[t].user_id = k
           /\ \/ TypingOk(t)
              \/ TypingFail(t)
              \/ \E o \in NetworkOutcomes : Complete(t, o)
              \/ SendOk(t)
              \/ Wake(t)
              \/ SendFail(t)
              \/ ApologyFail(t)

\* this step is /set_model of user k
SetModelOf(k) == \E m \in ModelIds, a \in BOOLEAN : SetModel(k, m, a)

\* C24: what is done for one user never affects another: a step of the
\* handler of a message of K1, whether the message succeeds or fails,
\* /clear_context of K1 and /set_model of K1 leave the history and the model
\* of every other user K2 as they are, also when K1 or K2 has no entry;
\* /clear_context of K leaves the model of K as it is and /set_model of K
\* leaves the history of K as it is
C24_OtherUsersUntouched ==
    [][\A k1 \in Keys :
           /\ (HandlerStepOf(k1) \/ ClearContext(k1) \/ SetModelOf(k1)) =>
                  \A k2 \in Keys \ {k1} :
                      /\ StoredHistory(k2)' = StoredHistory(k2)
                      /\ Registered(k2)' = Registered(k2)
                      /\ user_models'[k2] = user_models[k2]
                      /\ get_user_model(user_models', k2)
                             = get_user_model(user_models, k2)
           /\ ClearContext(k1) => user_models'[k1] = user_models[k1]
           /\ SetModelOf(k1) =>
                  /\ StoredHistory(k1)' = StoredHistory(k1)
                  /\ Registered(k1)' = Registered(k1)]_vars

\* one user has a history and a model of its own, the other has neither
\* and has a request in flight
C24_Witness ==
    \E k1, k2 \in Keys :
        /\ k1 # k2
        /\ Registered(k1) /\ StoredHistory(k1) # <<>>
        /\ user_models[k1] # NoEntry
        /\ ~Registered(k2)
        /\ user_models[k2] = NoEntry
        /\ \E t \in Tasks : task[t].user_id = k2 /\ task[t].pc = "completing"

====
